---- MODULE Spec2Model ----
(***************************************************************************)
(* The DHT node of package dht: the dispatch of one inbound datagram       *)
(* (handle, handleRequest, handleResponse, handleError, send) over the     *)
(* node's routing table and peer store (Spec), and the node as Run starts  *)
(* it: init, the reader goroutine of listen, join, runHandler (RunSpec).   *)
(*                                                                         *)
(* Identifiers are abstracted to IdBits-bit values; a Go string is a       *)
(* record [kind, len, val] that keeps its byte length, so that the length  *)
(* checks of the handlers are decided as the code decides them.            *)
(***************************************************************************)
EXTENDS Integers, Sequences, FiniteSets, TLC

\* ------------------------------------------------------------- bounds
IdBits == 2
MaxPackets == 2

\* ---------------------------------------------------- program constants
nodeIDLength == 48
bucketSize == 20
numBuckets == nodeIDLength * 8

VARIABLES localID, rt, store, clock, crashed, pc, pkt, sent, updated, inserted, ret

\* The node as Run starts it: the seed addresses join has still to resolve and
\* those it has resolved; the reader goroutine of listen (its position, the
\* error of its last ReadFromUDP, whether it has logged a failed receive, its
\* receive buffer, the number of datagrams it has read with a source address
\* and without one); whether the transport
\* is closed; and of the packet runHandler holds, which read it came from and
\* the datagram that was read for it, and the calls of handle so far.
VARIABLES seeds, resolved, rpc, rerr, logged, rbuf, rseq, nosrc, closed, pktSeq, origin, events

rdvars == <<seeds, resolved, rpc, rerr, logged, rbuf, rseq, nosrc, closed, pktSeq, origin, events>>

vars == <<localID, rt, store, clock, crashed, pc, pkt, sent, updated, inserted, ret,
          seeds, resolved, rpc, rerr, logged, rbuf, rseq, nosrc, closed, pktSeq, origin, events>>

\* ------------------------------------------------------------ values
RECURSIVE Pow2(_)
Pow2(n) == IF n = 0 THEN 1 ELSE 2 * Pow2(n - 1)

\* Config.NodeID: the node ids the model configures the node with.
ConfiguredIDs == {0, 3}

\* the node ids that inbound messages carry (identifiers of IdBits bits)
PeerIDs == {0, 1, 2, 3}

\* A decoded bencode value: a string of len bytes whose content is val, an
\* integer, a value of another type, or an absent map entry (a nil interface).
Str(n, v) == [kind |-> "str", len |-> n, val |-> v]
EmptyStr == Str(0, 0)
Absent == [kind |-> "absent", len |-> 0, val |-> 0]
OtherType == [kind |-> "other", len |-> 0, val |-> 0]

IdStr(v) == Str(nodeIDLength, v)
IdStrs == {IdStr(v) : v \in PeerIDs}
ShortStr == Str(nodeIDLength - 1, 0)
KeyStrs == {IdStr(0), IdStr(1)}

\* bitmap: the identifier a nodeIDLength-byte string holds.
newBitmapFromString(s) == s.val % Pow2(IdBits)

\* ----------------------------------------------- identifier & distance
RECURSIVE Xor(_, _, _)
Xor(a, b, n) ==
    IF n = 0 THEN 0
    ELSE 2 * Xor(a \div 2, b \div 2, n - 1) + (((a % 2) + (b % 2)) % 2)

distance(a, b) == Xor(a, b, IdBits)

RECURSIVE prefixLength_(_, _)
prefixLength_(d, n) ==
    IF n = 0 THEN 0
    ELSE IF d \div Pow2(n - 1) # 0 THEN 0
    ELSE 1 + prefixLength_(d, n - 1)

\* number of leading equal bits of a and b
prefixLength(a, b) == prefixLength_(distance(a, b), IdBits)

\* -------------------------------------------------------- routing table
Node(id, addr) == [id |-> id, ip |-> addr.ip, port |-> addr.port]

\* newRoutingTable: one bucket, covering the whole identifier space.
newRoutingTable == << [contacts |-> << >>, lastTouched |-> 0] >>

Min(a, b) == IF a < b THEN a ELSE b

RemoveID(cs, id) == SelectSeq(cs, LAMBDA c : c.id # id)

HasID(cs, id) == \E i \in 1 .. Len(cs) : cs[i].id = id

\* The bucket of a contact: bucket i (1-based) holds the contacts that share
\* exactly i-1 leading bits with the local id, the last bucket those that share
\* at least that many (the range that holds the local id).
BucketIndex(table, self, id) == Min(prefixLength(self, id) + 1, Len(table))

SplitLast(table, self) ==
    LET m == Len(table)
        b == table[m]
        near == SelectSeq(b.contacts, LAMBDA c : prefixLength(self, c.id) > m - 1)
        far == SelectSeq(b.contacts, LAMBDA c : prefixLength(self, c.id) = m - 1)
    IN  SubSeq(table, 1, m - 1)
          \o << [contacts |-> far, lastTouched |-> b.lastTouched],
                [contacts |-> near, lastTouched |-> b.lastTouched] >>

RECURSIVE UpdateAt(_, _, _, _)
UpdateAt(table, self, c, now) ==
    LET idx == BucketIndex(table, self, c.id)
        b == table[idx]
    IN  IF HasID(b.contacts, c.id)
        THEN [table EXCEPT ![idx] = [contacts |-> <<c>> \o RemoveID(b.contacts, c.id),
                                     lastTouched |-> now]]
        ELSE IF Len(b.contacts) < bucketSize
        THEN [table EXCEPT ![idx] = [contacts |-> <<c>> \o b.contacts,
                                     lastTouched |-> now]]
        ELSE IF idx = Len(table) /\ Len(table) < numBuckets
        THEN UpdateAt(SplitLast(table, self), self, c, now)
        ELSE table

\* (mutant) Update without the check for the local id
RoutingTable_Update_NoSelfCheck(table, self, c, now) == UpdateAt(table, self, c, now)

\* RoutingTable.Update
RoutingTable_Update(table, self, c, now) ==
    IF c.id = self THEN table ELSE UpdateAt(table, self, c, now)

RECURSIVE Flatten(_)
Flatten(table) ==
    IF table = << >> THEN << >> ELSE Head(table).contacts \o Flatten(Tail(table))

RECURSIVE InsertSorted(_, _, _)
InsertSorted(c, s, target) ==
    IF s = << >> THEN <<c>>
    ELSE IF distance(c.id, target) < distance(Head(s).id, target)
    THEN <<c>> \o s
    ELSE <<Head(s)>> \o InsertSorted(c, Tail(s), target)

RECURSIVE SortByDistance(_, _)
SortByDistance(s, target) ==
    IF s = << >> THEN << >>
    ELSE InsertSorted(Head(s), SortByDistance(Tail(s), target), target)

\* RoutingTable.FindClosest
RoutingTable_FindClosest(table, target, count) ==
    LET all == SortByDistance(Flatten(table), target)
    IN  SubSeq(all, 1, Min(count, Len(all)))

\* ----------------------------------------------------------- peer store
StoreKeys == KeyStrs \cup {ShortStr}

newPeerStore == [k \in StoreKeys |-> << >>]

\* peerStore.Insert
peerStore_Insert(st, key, publisher, now) ==
    LET recs == st[key]
    IN  IF \E i \in 1 .. Len(recs) : recs[i].value = publisher
        THEN [st EXCEPT ![key] =
                [i \in 1 .. Len(recs) |->
                    IF recs[i].value = publisher
                    THEN [value |-> publisher, storedAt |-> now]
                    ELSE recs[i]]]
        ELSE [st EXCEPT ![key] = <<[value |-> publisher, storedAt |-> now]>> \o recs]

\* peerStore.Get
peerStore_Get(st, key) ==
    IF key \in DOMAIN st
    THEN [i \in 1 .. Len(st[key]) |-> st[key][i].value]
    ELSE << >>

\* ------------------------------------------------------------ messages
\* Response{ID, NodeID, Data, FindNodeData}; a field left out of the literal
\* keeps Go's zero value (NoData, an empty list).
NoData == "unset"

Response(id, nodeID, data, nodes) ==
    [ID |-> id, NodeID |-> nodeID, Data |-> data, FindNodeData |-> nodes]

\* dht.node.id.RawString()
RawString(id) == IdStr(id)

\* The inbound datagrams. A datagram is given by what bencode decodes it to:
\* decodable (it decodes to a map at all), and the map's entries: the type tag,
\* the message id, the node id, the payload (a request's method, a response's
\* data, an error's exception text) and the arguments.
IntTag(t) == [kind |-> "int", val |-> t]
Token(t) == [kind |-> "str", val |-> t]
ArgList(items) == [kind |-> "list", items |-> items]
NoArgs == [kind |-> "absent", items |-> << >>]
BadArgs == [kind |-> "other", items |-> << >>]
NoStoreArgs == [BlobHash |-> EmptyStr, NodeID |-> EmptyStr]

Datagram(raddr, typ, msgID, nodeID, payload, args, storeArgs) ==
    [raddr |-> raddr, decodable |-> TRUE, typ |-> typ, msgID |-> msgID,
     nodeID |-> nodeID, payload |-> payload, args |-> args, storeArgs |-> storeArgs]

Blank(raddr, typ) ==
    Datagram(raddr, typ, Absent, Absent, [kind |-> "absent", val |-> ""], NoArgs, NoStoreArgs)

NoPacket == [Blank([ip |-> 0, port |-> 0], [kind |-> "absent", val |-> ""]) EXCEPT !.decodable = FALSE]

\* findNode and findValue arguments: none, an empty list, a string one byte
\* short, two identifiers, one identifier.
FindArgs ==
    {NoArgs, ArgList(<<ShortStr>>), ArgList(<<IdStr(0), IdStr(1)>>)}
        \cup {ArgList(<<k>>) : k \in KeyStrs}

\* store arguments: an empty key, a key of two publishers, a second key, a
\* key that is one byte short.
StoreArgsSet ==
    {[BlobHash |-> EmptyStr, NodeID |-> IdStr(1)],
     [BlobHash |-> IdStr(0), NodeID |-> IdStr(1)],
     [BlobHash |-> IdStr(0), NodeID |-> IdStr(2)],
     [BlobHash |-> IdStr(1), NodeID |-> IdStr(1)],
     [BlobHash |-> ShortStr, NodeID |-> IdStr(2)]}

RequestBodies ==
    {[method |-> "ping", args |-> NoArgs, storeArgs |-> NoStoreArgs],
     [method |-> "bogus", args |-> NoArgs, storeArgs |-> NoStoreArgs]}
    \cup {[method |-> "store", args |-> NoArgs, storeArgs |-> a] : a \in StoreArgsSet}
    \cup {[method |-> m, args |-> a, storeArgs |-> NoStoreArgs] :
              m \in {"findNode", "findValue"}, a \in FindArgs}

\* A sender: a peer's source address and the transaction id it puts in its
\* messages.
Senders == {[addr |-> [ip |-> i, port |-> 4444], tx |-> Str(20, i)] : i \in {1, 2}}

\* Transaction ids of fewer than four bytes (their hex text has fewer than
\* hexPrefixLen characters), and a node id of two bytes.
ShortTxs == {Str(0, 0), Str(3, 1)}

TinyStr == Str(2, 0)

\* the source address of the messages that carry such ids
ShortTxAddr == [ip |-> 1, port |-> 4444]

ShortTxBodies ==
    {[method |-> "ping", args |-> NoArgs, storeArgs |-> NoStoreArgs],
     [method |-> "bogus", args |-> NoArgs, storeArgs |-> NoStoreArgs],
     [method |-> "store", args |-> NoArgs,
      storeArgs |-> [BlobHash |-> EmptyStr, NodeID |-> IdStr(1)]],
     [method |-> "store", args |-> NoArgs,
      storeArgs |-> [BlobHash |-> IdStr(0), NodeID |-> IdStr(1)]],
     [method |-> "findNode", args |-> ArgList(<<IdStr(0)>>), storeArgs |-> NoStoreArgs]}

\* Requests of every body from every node id (the local one included),
\* requests whose node id is one byte short or not a string, and requests
\* with a transaction id of fewer than four bytes.
RequestDatagrams ==
    {Datagram(s.addr, IntTag("request"), s.tx, n, Token(b.method), b.args, b.storeArgs) :
        s \in Senders, n \in IdStrs, b \in RequestBodies}
    \cup {Datagram(s.addr, IntTag("request"), s.tx, n, Token("ping"), NoArgs, NoStoreArgs) :
        s \in Senders, n \in {ShortStr, OtherType}}
    \cup {Datagram(ShortTxAddr, IntTag("request"), t, n, Token(b.method), b.args, b.storeArgs) :
        t \in ShortTxs, n \in {IdStr(0), IdStr(1)}, b \in ShortTxBodies}

ResponseDatagrams ==
    {Datagram(s.addr, IntTag("response"), s.tx, n, Token("pong"), NoArgs, NoStoreArgs) :
        s \in Senders, n \in IdStrs \cup {ShortStr, OtherType}}
    \cup {Datagram(ShortTxAddr, IntTag("response"), t, n, Token("pong"), NoArgs, NoStoreArgs) :
        t \in ShortTxs, n \in {IdStr(0), IdStr(1)}}

\* Error messages: well-typed ones (the node id may be one byte short, or of
\* two bytes, the transaction id of fewer than four bytes), and ones with one
\* entry missing or of another type.
ErrorDatagrams ==
    {Datagram(s.addr, IntTag("error"), s.tx, n, Token("exception"), ArgList(<< >>), NoStoreArgs) :
        s \in Senders, n \in IdStrs \cup {ShortStr}}
    \cup {Datagram(ShortTxAddr, IntTag("error"), t, n, Token("exception"), ArgList(<< >>),
                   NoStoreArgs) :
        t \in ShortTxs, n \in {IdStr(0), IdStr(1)}}
    \cup {Datagram(ShortTxAddr, IntTag("error"), Str(20, 1), TinyStr, Token("exception"),
                   ArgList(<< >>), NoStoreArgs)}
    \cup {Datagram(s.addr, IntTag("error"), f[1], f[2], f[3], f[4], NoStoreArgs) :
        s \in Senders,
        f \in {<<Absent, IdStr(1), Token("exception"), ArgList(<< >>)>>,
               <<OtherType, IdStr(1), Token("exception"), ArgList(<< >>)>>,
               <<Str(20, 1), Absent, Token("exception"), ArgList(<< >>)>>,
               <<Str(20, 1), OtherType, Token("exception"), ArgList(<< >>)>>,
               <<Str(20, 1), IdStr(1), [kind |-> "absent", val |-> ""], ArgList(<< >>)>>,
               <<Str(20, 1), IdStr(1), [kind |-> "other", val |-> ""], ArgList(<< >>)>>,
               <<Str(20, 1), IdStr(1), Token("exception"), NoArgs>>,
               <<Str(20, 1), IdStr(1), Token("exception"), BadArgs>>}}

DroppedDatagrams ==
    {[Blank(s.addr, [kind |-> "absent", val |-> ""]) EXCEPT !.decodable = FALSE] : s \in Senders}
    \cup {Blank(s.addr, [kind |-> "absent", val |-> ""]) : s \in Senders}
    \cup {Blank(s.addr, IntTag("invalid")) : s \in Senders}

BadTagDatagrams == {Blank(s.addr, [kind |-> "other", val |-> ""]) : s \in Senders}

\* ------------------------------------------------------------ decoding
\* bencode.DecodeBytes(pkt.data, &request): the Request the datagram decodes to,
\* or an error.
DecodeRequest(p) ==
    [err |-> \/ p.msgID.kind # "str"
             \/ p.nodeID.kind # "str"
             \/ p.nodeID.len # nodeIDLength
             \/ p.payload.kind # "str"
             \/ p.args.kind = "other",
     request |-> [ID |-> p.msgID, NodeID |-> p.nodeID, Method |-> p.payload.val,
                  Args |-> p.args.items, StoreArgs |-> p.storeArgs]]

\* bencode.DecodeBytes(pkt.data, &response)
DecodeResponse(p) ==
    [err |-> \/ p.msgID.kind # "str"
             \/ p.nodeID.kind # "str"
             \/ p.nodeID.len # nodeIDLength,
     response |-> [ID |-> p.msgID, NodeID |-> p.nodeID, Data |-> p.payload.val]]

\* getArgs: reflect.TypeOf of a nil interface is nil, and Kind() on it panics.
getArgsPanics(a) == a.kind = "absent"

getArgs(a) == IF a.kind = "list" THEN a.items ELSE << >>

\* ------------------------------------------------------------ handlers
\* The node while one packet is handled: its routing table and store, and what
\* the handling has done so far (messages handed to send, contacts passed to
\* RoutingTable.Update, pairs passed to peerStore.Insert, a panic, the value
\* the handler returned).
DHT(table, st) ==
    [rt |-> table, store |-> st, sent |-> << >>, updated |-> << >>,
     inserted |-> << >>, panic |-> FALSE, ret |-> "none"]

Panic(d) == [d EXCEPT !.panic = TRUE]

Return(d, success) == [d EXCEPT !.ret = IF success THEN "true" ELSE "false"]

\* hex.EncodeToString([]byte(s))[:8], an argument of the log lines of handle
\* and send: the hex text of s has two characters a byte, and the slice of
\* its first hexPrefixLen characters panics when the text is shorter.
hexPrefixLen == 8

HexPrefixPanics(s) == 2 * s.len < hexPrefixLen

\* send: the message is logged (with the hex prefix of its id), encoded and
\* written to addr; env.sendOk is whether WriteToUDP succeeds.
send(d, addr, data, env) ==
    IF HexPrefixPanics(data.ID)
    THEN Panic(d)
    ELSE [d EXCEPT !.sent = Append(@, [to |-> addr, data |-> data, err |-> ~env.sendOk])]

\* node := &Node{id: newBitmapFromString(s), ip, port}; dht.routingTable.Update(node).
\* A string of another length than nodeIDLength is no bitmap: the conversion
\* panics or yields some identifier (env.bitmapPanics).
UpdateFrom(d, self, s, addr, env) ==
    IF s.len # nodeIDLength /\ env.bitmapPanics
    THEN Panic(d)
    ELSE LET node == Node(newBitmapFromString(s), addr)
         IN  [d EXCEPT !.rt = RoutingTable_Update(@, self, node, env.now),
                       !.updated = Append(@, node)]

\* (mutant) the closest-contacts reply carries the requester's id as sender id
ClosestReply_EchoesSenderID(d, self, addr, request, env) ==
    LET nodeID == newBitmapFromString(request.Args[1])
        closestNodes == RoutingTable_FindClosest(d.rt, nodeID, bucketSize)
    IN  send(d, addr, Response(request.ID, request.NodeID, NoData, closestNodes), env)

\* the closest-contacts reply of findNode and findValue
ClosestReply(d, self, addr, request, env) ==
    LET nodeID == newBitmapFromString(request.Args[1])
        closestNodes == RoutingTable_FindClosest(d.rt, nodeID, bucketSize)
    IN  send(d, addr, Response(request.ID, RawString(self), NoData, closestNodes), env)

\* (mutant) findNode without the length check of its argument
findNodeCase_NoLengthCheck(d, self, addr, request, env) ==
    IF Len(request.Args) < 1
    THEN [ok |-> FALSE, d |-> d]
    ELSE [ok |-> TRUE, d |-> ClosestReply(d, self, addr, request, env)]

\* (mutant) an unknown method is answered with an error message
unknownMethodCase_RepliesError(d, self, addr, request, env) ==
    [ok |-> FALSE,
     d |-> send(d, addr, Response(request.ID, RawString(self), "invalid q", << >>), env)]

\* The cases of handleRequest's method switch. Each yields [ok, d]: ok when
\* the case falls through to the routing-table update, d the node after it.
pingCase(d, self, addr, request, env) ==
    [ok |-> TRUE,
     d |-> send(d, addr, Response(request.ID, RawString(self),
                                  "pingSuccessResponse", << >>), env)]

storeCase(d, self, addr, request, env) ==
    IF request.StoreArgs.BlobHash.len = 0
    THEN [ok |-> FALSE, d |-> d]
    ELSE [ok |-> TRUE,
          d |-> send([d EXCEPT
                        !.store = peerStore_Insert(@, request.StoreArgs.BlobHash,
                                                   request.StoreArgs.NodeID, env.now),
                        !.inserted = Append(@, <<request.StoreArgs.BlobHash,
                                                 request.StoreArgs.NodeID>>)],
                     addr,
                     Response(request.ID, RawString(self),
                              "storeSuccessResponse", << >>), env)]

findNodeCase(d, self, addr, request, env) ==
    IF Len(request.Args) < 1
    THEN [ok |-> FALSE, d |-> d]
    ELSE IF request.Args[1].len # nodeIDLength
    THEN [ok |-> FALSE, d |-> d]
    ELSE [ok |-> TRUE, d |-> ClosestReply(d, self, addr, request, env)]

\* dht.store.Get is called and its result is not used: the reply is the one
\* of findNode.
findValueCase(d, self, addr, request, env) ==
    IF Len(request.Args) < 1
    THEN [ok |-> FALSE, d |-> d]
    ELSE IF request.Args[1].len # nodeIDLength
    THEN [ok |-> FALSE, d |-> d]
    ELSE LET nodeIDs == peerStore_Get(d.store, request.Args[1])
         IN  IF Len(nodeIDs) > 0
             THEN [ok |-> TRUE, d |-> ClosestReply(d, self, addr, request, env)]
             ELSE [ok |-> TRUE, d |-> ClosestReply(d, self, addr, request, env)]

unknownMethodCase(d, self, addr, request, env) == [ok |-> FALSE, d |-> d]

MethodSwitch(d, self, addr, request, env) ==
    CASE request.Method = "ping" -> pingCase(d, self, addr, request, env)
      [] request.Method = "store" -> storeCase(d, self, addr, request, env)
      [] request.Method = "findNode" -> findNodeCase(d, self, addr, request, env)
      [] request.Method = "findValue" -> findValueCase(d, self, addr, request, env)
      [] OTHER -> unknownMethodCase(d, self, addr, request, env)

\* (mutant) handleRequest without the routing-table update at its end
handleRequest_SkipsUpdate(d, self, addr, request, env) ==
    IF request.NodeID = RawString(self)
    THEN Return(d, FALSE)
    ELSE LET r == MethodSwitch(d, self, addr, request, env)
         IN  IF r.d.panic THEN r.d ELSE Return(r.d, r.ok)

\* (mutant) handleRequest without the check for a request of the node's own id
handleRequest_NoSelfCheck(d, self, addr, request, env) ==
    LET r == MethodSwitch(d, self, addr, request, env)
    IN  IF r.d.panic THEN r.d
        ELSE IF ~r.ok
        THEN Return(r.d, FALSE)
        ELSE LET u == UpdateFrom(r.d, self, request.NodeID, addr, env)
             IN  IF u.panic THEN u ELSE Return(u, TRUE)

\* (mutant) handleRequest passes the sender to RoutingTable.Update before it
\* computes the reply
handleRequest_UpdatesFirst(d, self, addr, request, env) ==
    IF request.NodeID = RawString(self)
    THEN Return(d, FALSE)
    ELSE LET u == UpdateFrom(d, self, request.NodeID, addr, env)
             r == MethodSwitch(u, self, addr, request, env)
         IN  IF u.panic THEN u
             ELSE IF r.d.panic THEN r.d
             ELSE Return(r.d, r.ok)

handleRequest(d, self, addr, request, env) ==
    IF request.NodeID = RawString(self)
    THEN Return(d, FALSE)
    ELSE LET r == MethodSwitch(d, self, addr, request, env)
         IN  IF r.d.panic THEN r.d
             ELSE IF ~r.ok
             THEN Return(r.d, FALSE)
             ELSE LET u == UpdateFrom(r.d, self, request.NodeID, addr, env)
                  IN  IF u.panic THEN u ELSE Return(u, TRUE)

\* (mutant) handleResponse acknowledges the response it was given
handleResponse_Acks(d, self, addr, response, env) ==
    LET u == UpdateFrom(d, self, response.NodeID, addr, env)
    IN  IF u.panic THEN u
        ELSE Return(send(u, addr, Response(response.ID, RawString(self),
                                           "ack", << >>), env), TRUE)

handleResponse(d, self, addr, response, env) ==
    LET u == UpdateFrom(d, self, response.NodeID, addr, env)
    IN  IF u.panic THEN u ELSE Return(u, TRUE)

handleError(d, self, addr, e, env) ==
    LET u == UpdateFrom(d, self, e.NodeID, addr, env)
    IN  IF u.panic THEN u ELSE Return(u, TRUE)

handle(d, self, p, env) ==
    IF ~p.decodable THEN d
    ELSE IF p.typ.kind = "absent" THEN d
    ELSE IF p.typ.kind # "int" THEN Panic(d)
    ELSE CASE p.typ.val = "request" ->
                LET dec == DecodeRequest(p)
                IN  IF dec.err THEN d
                    ELSE IF \/ HexPrefixPanics(dec.request.ID)
                            \/ HexPrefixPanics(dec.request.NodeID)
                    THEN Panic(d)
                    ELSE handleRequest(d, self, p.raddr, dec.request, env)
           [] p.typ.val = "response" ->
                LET dec == DecodeResponse(p)
                IN  IF dec.err THEN d
                    ELSE IF \/ HexPrefixPanics(dec.response.ID)
                            \/ HexPrefixPanics(dec.response.NodeID)
                    THEN Panic(d)
                    ELSE handleResponse(d, self, p.raddr, dec.response, env)
           [] p.typ.val = "error" ->
                IF \/ p.msgID.kind # "str"
                   \/ p.nodeID.kind # "str"
                   \/ p.payload.kind # "str"
                   \/ getArgsPanics(p.args)
                THEN Panic(d)
                ELSE IF HexPrefixPanics(p.msgID) \/ HexPrefixPanics(p.nodeID)
                THEN Panic(d)
                ELSE handleError(d, self, p.raddr,
                                 [ID |-> p.msgID, NodeID |-> p.nodeID,
                                  ExceptionType |-> p.payload.val,
                                  Response |-> getArgs(p.args)], env)
           [] OTHER -> d

\* -------------------------------------------------------- the node
\* New: no seed is resolved, there is no reader goroutine yet, the transport
\* is open, handle has not been called.
NotStarted ==
    /\ resolved = {}
    /\ rpc = "off"
    /\ rerr = "nil"
    /\ logged = FALSE
    /\ rbuf = NoPacket
    /\ rseq = 0
    /\ nosrc = 0
    /\ closed = FALSE
    /\ pktSeq = 0
    /\ origin = NoPacket
    /\ events = << >>

\* New: the node's id is the configured one; the routing table and the store
\* are empty. runHandler waits for its first packet (Spec is the dispatch
\* loop alone, given any packets: the reader and the steps of Run before
\* runHandler are left out of it).
Init ==
    /\ seeds = << >>
    /\ NotStarted
    /\ localID \in ConfiguredIDs
    /\ rt = newRoutingTable
    /\ store = newPeerStore
    /\ clock = 0
    /\ crashed = FALSE
    /\ pc = "recv"
    /\ pkt = NoPacket
    /\ sent = << >>
    /\ updated = << >>
    /\ inserted = << >>
    /\ ret = "none"

\* runHandler: pkt = <-dht.packets
Take(p) ==
    /\ pc = "recv"
    /\ clock < MaxPackets
    /\ pkt' = p
    /\ pc' = "handle"
    /\ UNCHANGED <<localID, rt, store, clock, crashed, sent, updated, inserted, ret>>

RecvRequest == UNCHANGED rdvars /\ \E p \in RequestDatagrams : Take(p)

RecvResponse == UNCHANGED rdvars /\ \E p \in ResponseDatagrams : Take(p)

RecvError == UNCHANGED rdvars /\ \E p \in ErrorDatagrams : Take(p)

RecvDropped == UNCHANGED rdvars /\ \E p \in DroppedDatagrams : Take(p)

RecvBadTag == UNCHANGED rdvars /\ \E p \in BadTagDatagrams : Take(p)

\* What the environment decides while a packet is handled: the time, whether
\* the write of a reply succeeds, what the bitmap conversion does with a string
\* of the wrong length.
Env(sendOk, bitmapPanics) ==
    [now |-> clock + 1, sendOk |-> sendOk, bitmapPanics |-> bitmapPanics]

\* runHandler: handle(dht, pkt). A panic ends the process: nothing recovers it.
\* (A write can only fail when a reply is written, and the bitmap conversion
\* only matters when it panics.)
Handle ==
    /\ pc = "handle"
    /\ \E sendOk \in BOOLEAN, bitmapPanics \in BOOLEAN :
          LET d == handle(DHT(rt, store), localID, pkt, Env(sendOk, bitmapPanics))
          IN  /\ sendOk \/ d.sent # << >>
              /\ bitmapPanics => d.panic
              /\ rt' = d.rt
              /\ store' = d.store
              /\ sent' = d.sent
              /\ updated' = d.updated
              /\ inserted' = d.inserted
              /\ ret' = d.ret
              /\ crashed' = d.panic
    /\ clock' = clock + 1
    /\ pc' = "done"
    /\ UNCHANGED <<localID, pkt>>

\* runHandler: the next iteration of the loop. What was recorded of the last
\* handling is dropped.
Loop ==
    /\ pc = "done"
    /\ ~crashed
    /\ pc' = "recv"
    /\ pkt' = NoPacket
    /\ sent' = << >>
    /\ updated' = << >>
    /\ inserted' = << >>
    /\ ret' = "none"
    /\ UNCHANGED <<localID, rt, store, clock, crashed>>

HandlePacket == UNCHANGED rdvars /\ Handle

LoopAgain == UNCHANGED rdvars /\ Loop

Next ==
    \/ RecvRequest \/ RecvResponse \/ RecvError \/ RecvDropped \/ RecvBadTag
    \/ HandlePacket
    \/ LoopAgain

Spec == Init /\ [][Next]_vars

\* ------------------------------------------------- Run and the reader
\* Config.SeedNodes: a seed address and whether net.ResolveUDPAddr resolves it.
Seed(ip, resolves) == [addr |-> [ip |-> ip, port |-> 4444], resolves |-> resolves]

SeedConfigs ==
    {<< >>, <<Seed(1, TRUE)>>, <<Seed(7, FALSE), Seed(2, TRUE)>>}

\* The datagrams the reader is given: a ping and a findNode request of two
\* peers, a response, and a datagram whose type tag is no integer.
RunDatagrams ==
    {Datagram([ip |-> 1, port |-> 4444], IntTag("request"), Str(20, 1), IdStr(1),
              Token("ping"), NoArgs, NoStoreArgs),
     Datagram([ip |-> 2, port |-> 4444], IntTag("request"), Str(20, 2), IdStr(2),
              Token("findNode"), ArgList(<<IdStr(1)>>), NoStoreArgs),
     Datagram([ip |-> 2, port |-> 4444], IntTag("response"), Str(20, 2), IdStr(2),
              Token("pong"), NoArgs, NoStoreArgs),
     Blank([ip |-> 1, port |-> 4444], [kind |-> "other", val |-> ""])}

\* packet{data: buf[:n], raddr: raddr}: the packet's data is a slice of the
\* reader's one buffer, not a copy, and keeps the length of its own read. When
\* ReadFromUDP fills the buffer again while handle has still to decode the
\* packet, the two accesses race. What bencode.DecodeBytes then sees is one
\* of: the old datagram, the new one, or entries of both (Mixed); bytes that
\* do not decode at all, as the first bytes of a longer datagram do not
\* (Truncated); bytes that decode to a map with a type tag, and no longer to
\* a Request or Response when handle decodes them the second time
\* (Redecoded: the failed decode is that of a message id of another type).
\* The packet's raddr is its own.
Mixed(old, new) ==
    {[raddr |-> old.raddr, decodable |-> d, typ |-> t, msgID |-> m, nodeID |-> n,
      payload |-> p, args |-> a, storeArgs |-> s] :
        d \in {old.decodable, new.decodable}, t \in {old.typ, new.typ},
        m \in {old.msgID, new.msgID}, n \in {old.nodeID, new.nodeID},
        p \in {old.payload, new.payload}, a \in {old.args, new.args},
        s \in {old.storeArgs, new.storeArgs}}

Truncated(old) == [old EXCEPT !.decodable = FALSE]

Redecoded(old, new) ==
    {[old EXCEPT !.decodable = TRUE, !.typ = t, !.msgID = OtherType] :
        t \in {old.typ, new.typ} \cap {IntTag("request"), IntTag("response")}}

Torn(old, new) ==
    Mixed(old, new) \cup {Truncated(old)} \cup Redecoded(old, new)

\* New, then Run is called.
RunInit ==
    /\ seeds \in SeedConfigs
    /\ NotStarted
    /\ localID \in ConfiguredIDs
    /\ rt = newRoutingTable
    /\ store = newPeerStore
    /\ clock = 0
    /\ crashed = FALSE
    /\ pc = "init"
    /\ pkt = NoPacket
    /\ sent = << >>
    /\ updated = << >>
    /\ inserted = << >>
    /\ ret = "none"

\* dht.init: net.ListenPacket binds the address, or init panics.
init ==
    /\ pc = "init"
    /\ ~crashed
    /\ \E bound \in BOOLEAN :
          IF bound
          THEN pc' = "listen" /\ crashed' = crashed
          ELSE pc' = pc /\ crashed' = TRUE
    /\ UNCHANGED <<localID, rt, store, clock, pkt, sent, updated, inserted, ret>>
    /\ UNCHANGED rdvars

\* dht.listen: the reader goroutine is started.
listen ==
    /\ pc = "listen"
    /\ pc' = "join"
    /\ rpc' = "read"
    /\ UNCHANGED <<localID, rt, store, clock, crashed, pkt, sent, updated, inserted, ret>>
    /\ UNCHANGED <<seeds, resolved, rerr, logged, rbuf, rseq, nosrc, closed, pktSeq, origin, events>>

\* dht.join, one seed: the address is resolved, or skipped when it does not
\* resolve. The resolved address is dropped (`_ = raddr`): nothing is sent.
join ==
    /\ pc = "join"
    /\ ~crashed
    /\ seeds # << >>
    /\ seeds' = Tail(seeds)
    /\ resolved' = IF Head(seeds).resolves
                   THEN resolved \cup {Head(seeds).addr}
                   ELSE resolved
    /\ UNCHANGED <<localID, rt, store, clock, crashed, pc, pkt, sent, updated, inserted, ret>>
    /\ UNCHANGED <<rpc, rerr, logged, rbuf, rseq, nosrc, closed, pktSeq, origin, events>>

\* Run: join has returned, "DHT ready" is logged, runHandler is entered.
ready ==
    /\ pc = "join"
    /\ ~crashed
    /\ seeds = << >>
    /\ pc' = "recv"
    /\ UNCHANGED <<localID, rt, store, clock, crashed, pkt, sent, updated, inserted, ret>>
    /\ UNCHANGED rdvars

\* The reader: ReadFromUDP returns a datagram and its source address. The
\* datagram is in the buffer, which the packet runHandler has taken and not
\* yet decoded shares.
ReadFromUDP ==
    /\ rpc = "read"
    /\ ~crashed
    /\ ~closed
    /\ rseq + nosrc < MaxPackets
    /\ \E dg \in RunDatagrams :
          /\ rbuf' = dg
          /\ IF pc = "handle" THEN pkt' \in Torn(pkt, dg) ELSE pkt' = pkt
    /\ rerr' = "nil"
    /\ rseq' = rseq + 1
    /\ rpc' = "send"
    /\ UNCHANGED <<localID, rt, store, clock, crashed, pc, sent, updated, inserted, ret>>
    /\ UNCHANGED <<seeds, resolved, logged, nosrc, closed, pktSeq, origin, events>>

\* The reader: ReadFromUDP returns an error. On a closed transport it does so
\* at once, every time.
ReadError ==
    /\ rpc = "read"
    /\ ~crashed
    /\ rerr' = IF closed THEN "closed" ELSE "io"
    /\ rpc' = "logerr"
    /\ UNCHANGED <<localID, rt, store, clock, crashed, pc, pkt, sent, updated, inserted, ret>>
    /\ UNCHANGED <<seeds, resolved, logged, rbuf, rseq, nosrc, closed, pktSeq, origin, events>>

\* The reader: ReadFromUDP returns no error and no source address. The
\* bytes of that receive are in the buffer all the same, which the packet
\* runHandler has taken and not yet decoded shares; no packet is made of them.
ReadNoSource ==
    /\ rpc = "read"
    /\ ~crashed
    /\ ~closed
    /\ rseq + nosrc < MaxPackets
    /\ \E dg \in RunDatagrams :
          /\ rbuf' = dg
          /\ IF pc = "handle" THEN pkt' \in Torn(pkt, dg) ELSE pkt' = pkt
    /\ rerr' = "nil"
    /\ nosrc' = nosrc + 1
    /\ rpc' = "lognosrc"
    /\ UNCHANGED <<localID, rt, store, clock, crashed, pc, sent, updated, inserted, ret>>
    /\ UNCHANGED <<seeds, resolved, logged, rseq, closed, pktSeq, origin, events>>

\* The reader: log.Errorf and `continue`, in both branches.
LogContinue ==
    /\ rpc \in {"logerr", "lognosrc"}
    /\ ~crashed
    /\ logged' = TRUE
    /\ rpc' = "read"
    /\ UNCHANGED <<localID, rt, store, clock, crashed, pc, pkt, sent, updated, inserted, ret>>
    /\ UNCHANGED <<seeds, resolved, rerr, rbuf, rseq, nosrc, closed, pktSeq, origin, events>>

\* (mutant) the reader hands its packet over without waiting for runHandler
\* to receive: the packet replaces the one that is being handled
Handoff_NoRendezvous ==
    /\ rpc = "send"
    /\ ~crashed
    /\ pc \in {"recv", "handle"}
    /\ clock < MaxPackets
    /\ pkt' = rbuf
    /\ pc' = "handle"
    /\ rpc' = "read"
    /\ pktSeq' = rseq
    /\ origin' = rbuf
    /\ events' = Append(events, [ev |-> "start", seq |-> rseq])
    /\ UNCHANGED <<localID, rt, store, clock, crashed, sent, updated, inserted, ret>>
    /\ UNCHANGED <<seeds, resolved, rerr, logged, rbuf, rseq, nosrc, closed>>

\* dht.packets <- packet{...} in the reader and pkt = <-dht.packets in
\* runHandler: the channel has no buffer, the two meet. handle is called on
\* the packet.
Handoff ==
    /\ rpc = "send"
    /\ ~crashed
    /\ Take(rbuf)
    /\ rpc' = "read"
    /\ pktSeq' = rseq
    /\ origin' = rbuf
    /\ events' = Append(events, [ev |-> "start", seq |-> rseq])
    /\ UNCHANGED <<seeds, resolved, rerr, logged, rbuf, rseq, nosrc, closed>>

\* runHandler: handle(dht, pkt) runs and returns, or panics.
Dispatch ==
    /\ Handle
    /\ events' = Append(events, [ev |-> "end", seq |-> pktSeq])
    /\ UNCHANGED <<seeds, resolved, rpc, rerr, logged, rbuf, rseq, nosrc, closed, pktSeq, origin>>

Iterate == UNCHANGED rdvars /\ Loop

\* The transport is closed from outside the two loops (the node is shut down).
Shutdown ==
    /\ pc \notin {"init"}
    /\ ~crashed
    /\ ~closed
    /\ closed' = TRUE
    /\ UNCHANGED <<localID, rt, store, clock, crashed, pc, pkt, sent, updated, inserted, ret>>
    /\ UNCHANGED <<seeds, resolved, rpc, rerr, logged, rbuf, rseq, nosrc, pktSeq, origin, events>>

RunNext ==
    \/ init \/ listen \/ join \/ ready
    \/ ReadFromUDP \/ ReadError \/ ReadNoSource \/ LogContinue
    \/ Handoff \/ Dispatch \/ Iterate
    \/ Shutdown

RunSpec == RunInit /\ [][RunNext]_vars

\* ------------------------------------------------------------ claims
\* What the packet runHandler holds is (Got*), and what the packet it has
\* handled was (Is*).
Handled == pc = "done"

GotRequest ==
    /\ pkt.decodable
    /\ pkt.typ = IntTag("request")
    /\ ~DecodeRequest(pkt).err

Req == DecodeRequest(pkt).request

GotResponse ==
    /\ pkt.decodable
    /\ pkt.typ = IntTag("response")
    /\ ~DecodeResponse(pkt).err

GotError ==
    /\ pkt.decodable
    /\ pkt.typ = IntTag("error")
    /\ pkt.msgID.kind = "str"
    /\ pkt.nodeID.kind = "str"
    /\ pkt.payload.kind = "str"
    /\ ~getArgsPanics(pkt.args)

IsRequest == Handled /\ GotRequest

IsResponse == Handled /\ GotResponse

IsError == Handled /\ GotError

FromOther == pkt.nodeID # RawString(localID)

SenderContact == Node(newBitmapFromString(pkt.nodeID), pkt.raddr)

Contacts == {Flatten(rt)[i] : i \in 1 .. Len(Flatten(rt))}

\* a findNode or findValue request with a first argument of nodeIDLength bytes
HasValidTarget == Len(Req.Args) >= 1 /\ Req.Args[1].len = nodeIDLength

\* the requests handleRequest answers
Answered ==
    \/ Req.Method = "ping"
    \/ Req.Method = "store" /\ Req.StoreArgs.BlobHash.len # 0
    \/ Req.Method \in {"findNode", "findValue"} /\ HasValidTarget

\* The transactions the node has pending: the DHT keeps none (it never sends a
\* request, and has no transaction manager).
pendingTransactions == {}

\* C1: a findValue request for a key the store holds values for (stored by an
\* earlier store request) is answered with one reply that carries data, not
\* with the closest-contacts list.
C1_FindValueReturnsStoredValues ==
    (/\ IsRequest /\ FromOther
     /\ Req.Method = "findValue" /\ HasValidTarget
     /\ peerStore_Get(store, Req.Args[1]) # << >>)
        => /\ Len(sent) = 1
           /\ sent[1].data.Data # NoData
           /\ sent[1].data.FindNodeData = << >>

\* handleRequest was called on the request and has returned
RequestReturned == IsRequest /\ ret # "none"

\* C2 (as claimed): after handleRequest has handled a request of another
\* node's id, whatever the method and its outcome, the sender's contact has
\* been passed to RoutingTable.Update.
C2_UpdateAfterAnyRequest ==
    (RequestReturned /\ FromOther) => updated = <<SenderContact>>

\* C2 (amended): after handleRequest has handled a request of another node's
\* id, the sender's contact has been passed to RoutingTable.Update exactly
\* when the request was answered (ping, store with a non-empty key, findNode
\* or findValue with a first argument of nodeIDLength bytes); a rejected or
\* unknown request returns before the update.
C2_UpdateAfterAnsweredRequest ==
    (RequestReturned /\ FromOther) =>
        /\ Answered => updated = <<SenderContact>> /\ ret = "true"
        /\ ~Answered => updated = << >> /\ ret = "false"

C2_Witness ==
    /\ RequestReturned /\ FromOther
    /\ Req.Method = "findValue" /\ HasValidTarget
    /\ updated = <<SenderContact>>
    /\ SenderContact \in Contacts

\* C3: whatever the datagram, handle returns without crashing the node.
C3_HandleNeverCrashes == ~crashed

\* C4: a response or error message whose transaction id is not that of a
\* pending transaction is a no-op: no contact is passed to RoutingTable.Update.
C4_UncorrelatedIsNoOp ==
    ((IsResponse \/ IsError) /\ pkt.msgID \notin pendingTransactions)
        => updated = << >>

\* the reply handleRequest sends for a ping
PingReply ==
    [to |-> pkt.raddr,
     data |-> Response(Req.ID, RawString(localID), "pingSuccessResponse", << >>),
     err |-> FALSE]

GotPingFromOther == GotRequest /\ FromOther /\ Req.Method = "ping"

\* C5: when a node with an empty routing table handles a ping of another
\* node's id, it hands exactly one success response, for the sender's source
\* address, to send, and afterwards its routing table holds the sender's
\* contact (and nothing else).
C5_PingIntoEmptyTable ==
    [][(pc = "handle" /\ Flatten(rt) = << >> /\ GotPingFromOther)
          => /\ Len(sent') = 1
             /\ [sent'[1] EXCEPT !.err = FALSE] = PingReply
             /\ Flatten(rt') = <<SenderContact>>]_vars

GotBadFindNode ==
    /\ GotRequest /\ FromOther
    /\ Req.Method = "findNode"
    /\ Len(Req.Args) >= 1
    /\ Req.Args[1].len # nodeIDLength

\* C6: a findNode request whose first argument is not nodeIDLength bytes long
\* gets no reply and leaves the routing table (and the store) as it was: no
\* contact is passed to RoutingTable.Update.
C6_BadFindNodeRejected ==
    [][(pc = "handle" /\ GotBadFindNode)
          => /\ sent' = << >>
             /\ updated' = << >>
             /\ rt' = rt
             /\ store' = store]_vars

C6_Witness ==
    /\ Handled /\ GotBadFindNode
    /\ sent = << >>
    /\ Contacts # {}
    /\ SenderContact \notin Contacts

GotSelfRequest == GotRequest /\ ~FromOther

\* C7: a request of the local node's own id is ignored, whatever its method:
\* nothing is sent, nothing is inserted into the store, RoutingTable.Update is
\* not called, and the routing table and the store stay as they were.
C7_SelfRequestIgnored ==
    [][(pc = "handle" /\ GotSelfRequest)
          => /\ sent' = << >>
             /\ inserted' = << >>
             /\ updated' = << >>
             /\ rt' = rt
             /\ store' = store]_vars

C7_Witness ==
    /\ Handled /\ GotSelfRequest
    /\ Req.Method = "store"
    /\ Req.StoreArgs.BlobHash.len # 0
    /\ sent = << >>
    /\ Contacts # {}

NoLocalContact == \A c \in Contacts : c.id # localID

\* C8: a response or error message of the local node's own id changes neither
\* the routing table (contacts, order, bucket timestamps) nor the store, and
\* the routing table never holds a contact of the local id.
C8_SelfResponseNoMutation ==
    /\ NoLocalContact
    /\ [][/\ (pc = "handle" /\ (GotResponse \/ GotError) /\ ~FromOther /\ ~crashed')
                => (rt' = rt /\ store' = store)
          /\ NoLocalContact']_vars

C8_Witness ==
    /\ IsError /\ ~FromOther /\ ~crashed
    /\ updated = <<SenderContact>>
    /\ Contacts # {}
    /\ NoLocalContact

IsStore == IsRequest /\ FromOther /\ Req.Method = "store"

\* C9: a store request with an empty content key does not crash the node,
\* inserts nothing and gets no reply; one with a non-empty key inserts (key,
\* publisher id) into the store and gets one success response that carries the
\* request's transaction id.
C9_StoreEmptyKeyRejected ==
    IsStore =>
        /\ ~crashed
        /\ Req.StoreArgs.BlobHash.len = 0
              => sent = << >> /\ inserted = << >>
        /\ Req.StoreArgs.BlobHash.len # 0
              => /\ inserted = << <<Req.StoreArgs.BlobHash, Req.StoreArgs.NodeID>> >>
                 /\ Len(sent) = 1
                 /\ sent[1].to = pkt.raddr
                 /\ sent[1].data.Data = "storeSuccessResponse"
                 /\ sent[1].data.ID = Req.ID

\* C10: a request whose method is none of ping, store, findNode, findValue
\* gets no reply.
C10_UnknownMethodNoReply ==
    (IsRequest /\ Req.Method \notin {"ping", "store", "findNode", "findValue"})
        => sent = << >>

C10_Witness ==
    /\ IsRequest /\ FromOther
    /\ Req.Method = "bogus"
    /\ sent = << >>
    /\ Contacts # {}

\* C14: a findNode request is answered only when it carries exactly one
\* argument: one with no argument or with more than one argument gets no reply.
C14_FindNodeExactlyOneArg ==
    (IsRequest /\ FromOther /\ Req.Method = "findNode" /\ Len(Req.Args) # 1)
        => sent = << >>

\* an error message of another node's id, the id nodeIDLength bytes long
GotErrorFromOther == GotError /\ FromOther /\ pkt.nodeID.len = nodeIDLength

\* C16: after an error message whose node id (a nodeIDLength-byte identifier)
\* differs from the local id, the sender's contact (its id, the source IP and
\* port) has been passed to RoutingTable.Update, once, and the routing table
\* holds it (a bucket takes bucketSize contacts: it has room for every peer).
C16_ErrorUpdatesRoutingTable ==
    (Handled /\ GotErrorFromOther) =>
        /\ ~crashed
        /\ updated = <<SenderContact>>
        /\ SenderContact \in Contacts
        /\ ret = "true"

\* C18: every message the node hands to send is a response to the request it
\* is handling: it carries that request's transaction id and the local node
\* id as sender id, and is addressed to the request's source address.
C18_ResponseEchoesTransaction ==
    \A i \in 1 .. Len(sent) :
        /\ IsRequest
        /\ sent[i].data.ID = Req.ID
        /\ sent[i].data.NodeID = RawString(localID)
        /\ sent[i].to = pkt.raddr

C18_Witness ==
    /\ IsRequest /\ FromOther
    /\ Req.Method = "findValue"
    /\ Len(sent) = 1
    /\ sent[1].data.ID = Req.ID
    /\ sent[1].data.FindNodeData # << >>
    /\ sent[1].to = [ip |-> 2, port |-> 4444]

\* C19: handling one datagram hands at most one message to send: a request at
\* most one response (none when it is rejected, of the local id or of an
\* unknown method), a response or an error message none, and so does a
\* datagram that is dropped.
C19_AtMostOneMessagePerDatagram ==
    /\ Len(sent) <= 1
    /\ (Handled /\ ~GotRequest) => sent = << >>
    /\ (IsRequest /\ FromOther /\ Answered /\ ~crashed) => Len(sent) = 1

C19_Witness ==
    /\ IsResponse /\ FromOther /\ ~crashed
    /\ clock = 2
    /\ updated = <<SenderContact>>
    /\ Cardinality(Contacts) = 2
    /\ sent = << >>

\* a findNode or findValue request of another node's id that is answered
GotLookupFromOther ==
    /\ GotRequest /\ FromOther
    /\ Req.Method \in {"findNode", "findValue"}
    /\ HasValidTarget

\* the ids of the contacts of a list
IDsOf(cs) == {cs[i].id : i \in 1 .. Len(cs)}

\* C20: when a findNode or findValue request is handled, the contact list of
\* its reply is what FindClosest yields on the routing table as it was before
\* the request, so a requester the table did not hold is not in the reply to
\* its own request; the sender's contact is passed to RoutingTable.Update
\* only after the reply was handed to send, and then always, whether or not
\* the write of the reply succeeded.
C20_ReplyBeforeUpdate ==
    [][(pc = "handle" /\ GotLookupFromOther)
          => /\ \A i \in 1 .. Len(sent') :
                   /\ sent'[i].data.FindNodeData =
                          RoutingTable_FindClosest(rt, newBitmapFromString(Req.Args[1]),
                                                   bucketSize)
                   /\ SenderContact.id \notin IDsOf(Flatten(rt))
                          => SenderContact.id \notin IDsOf(sent'[i].data.FindNodeData)
             /\ updated' # << >> => Len(sent') = 1
             /\ sent' # << >> => updated' = <<SenderContact>> /\ ret' = "true"]_vars

C20_Witness ==
    /\ Handled /\ GotLookupFromOther
    /\ Len(sent) = 1
    /\ sent[1].err
    /\ sent[1].data.FindNodeData # << >>
    /\ SenderContact.id \notin IDsOf(sent[1].data.FindNodeData)
    /\ updated = <<SenderContact>>
    /\ SenderContact \in Contacts

\* C11: a failed receive does not end the reader or the node, and a datagram
\* the reader has received after it is forwarded and handled: the reader never
\* holds such a datagram in a process that has died.
C11_ReceivedAfterFailureIsHandled ==
    (logged /\ rpc = "send") => ~crashed

\* C12: once the transport is closed the reader stops: after ReadFromUDP has
\* reported the closed transport, the reader does not call ReadFromUDP again.
C12_ReaderStopsAfterShutdown ==
    rerr = "closed" => rpc # "read"

\* C13: when Run enters the dispatch loop, join has sent, to every seed
\* address that resolved, a findNode request for the local id.
C13_JoinLooksUpLocalID ==
    (pc = "recv" /\ clock = 0) =>
        \A a \in resolved :
            \E i \in 1 .. Len(sent) :
                /\ sent[i].to = a
                /\ sent[i].data.Method = "findNode"
                /\ sent[i].data.Args = <<RawString(localID)>>

\* C15: the calls of handle are for the packets of the reader's successful
\* reads in the order of the reads, none left out: the k-th call is for the
\* k-th read, and it has returned before the next call starts, so at most one
\* packet is being handled at any time.
C15_HandledInArrivalOrder ==
    /\ \A i \in 1 .. Len(events) :
          events[i] = [ev |-> IF i % 2 = 1 THEN "start" ELSE "end",
                       seq |-> (i + 1) \div 2]
    /\ (Len(events) % 2 = 1) <=> (pc = "handle")
    /\ pktSeq <= rseq

C15_Witness ==
    /\ Len(events) = 4
    /\ events[3] = [ev |-> "start", seq |-> 2]
    /\ Handled /\ ~crashed
    /\ logged
    /\ Cardinality(Contacts) = 2

\* C17: what handle has decoded for a packet is the datagram that was read
\* for that packet: the reader does not fill the buffer again while the packet
\* that shares it is still to be decoded.
C17_HandleDecodesWhatWasRead ==
    Handled => pkt = origin

====
